---- MODULE Spec2Model ----
(***************************************************************************)
(* youtube-to-text: the command line entry point `transcribe`, the per-URL *)
(* pipeline `process_video` (main.py) and the fetcher `download_audio`     *)
(* (downloader.py).  Strings are sequences of one-character strings, a     *)
(* directory is a function from file names to file contents.  The external *)
(* collaborators (yt-dlp, the speech-to-text engine, the LLM cleaner, the  *)
(* filesystem) are nondeterministic: each call returns one of a small set  *)
(* of values or raises.                                                    *)
(***************************************************************************)
EXTENDS Integers, Sequences, FiniteSets, TLC

\* Bounds of the model.
MaxLines == 1
MaxTitleLen == 3

BoundedSeq(S, n) == UNION {[1..k -> S] : k \in 0..n}

(***************************************************************************)
(* Characters and strings                                                  *)
(***************************************************************************)
Whitespace == {" ", "\t", "\n"}

IsAlnum(c) == c \in {"a", "b", "d", "i", "o", "u", "v", "1"}

Keep(c) == IsAlnum(c) \/ c \in {" ", "-", "_"}

RECURSIVE RStrip(_)
RStrip(s) ==
    IF s = <<>> THEN s
    ELSE IF s[Len(s)] \in Whitespace THEN RStrip(SubSeq(s, 1, Len(s) - 1))
    ELSE s

RECURSIVE LStrip(_)
LStrip(s) ==
    IF s = <<>> THEN s
    ELSE IF s[1] \in Whitespace THEN LStrip(Tail(s))
    ELSE s

Strip(s) == LStrip(RStrip(s))

SanitizeNoStrip(name) == SelectSeq(name, Keep)

Sanitize(name) == RStrip(SelectSeq(name, Keep))

EndsWith(s, suf) ==
    /\ Len(s) >= Len(suf)
    /\ SubSeq(s, Len(s) - Len(suf) + 1, Len(s)) = suf

RFind(s, c) ==
    LET hits == {i \in 1..Len(s) : s[i] = c}
    IN  IF hits = {} THEN 0 ELSE CHOOSE i \in hits : \A j \in hits : j <= i

(***************************************************************************)
(* File names                                                              *)
(***************************************************************************)
Formats == {"txt", "srt", "vtt"}

Chars(fmt) ==
    CASE fmt = "txt" -> <<"t", "x", "t">>
      [] fmt = "srt" -> <<"s", "r", "t">>
      [] fmt = "vtt" -> <<"v", "t", "t">>

Mp3Suffix == <<".", "m", "p", "3">>

AudioFilename(safe_title) == safe_title \o Mp3Suffix

EngineFilename(name) == name \o Mp3Suffix

UnconvertedFilename(name) == name \o <<".", "w", "e", "b", "m">>

OutputFilenameNoTitle(name, fmt) == <<"o", "u", "t", ".">> \o Chars(fmt)

OutputFilename(name, fmt) == name \o <<".">> \o Chars(fmt)

RawFilenameNoMarker(name, fmt) == name \o <<".">> \o Chars(fmt)

RawFilename(name, fmt) == name \o <<"_", "r", "a", "w", ".">> \o Chars(fmt)

\* pathlib's suffix: the text from the last dot on, unless that dot is the
\* first or the last character of the name.
HasSuffix(name) == RFind(name, ".") > 1 /\ RFind(name, ".") < Len(name)

WithSuffixMp3(name) ==
    IF HasSuffix(name)
    THEN SubSeq(name, 1, RFind(name, ".") - 1) \o Mp3Suffix
    ELSE name \o Mp3Suffix

(***************************************************************************)
(* Transcripts, the formatter and the cleaner's results                    *)
(***************************************************************************)
NumStr(n) == <<"0", "1", "2", "3", "4">>[n + 1]

Segment(s, e, t) == [start |-> s, end |-> e, text |-> t]

Transcripts ==
    { [text |-> "x", segments |-> <<>>],
      [text |-> "y z", segments |-> <<Segment(0, 1, "y"), Segment(1, 2, "z")>>] }

NoResult == [text |-> "", segments |-> <<>>]

CleanedTexts == {"", "c"}

RECURSIVE Blocks(_, _, _)
Blocks(segs, i, arrow) ==
    IF i > Len(segs) THEN <<>>
    ELSE <<NumStr(i), NumStr(segs[i].start), arrow, NumStr(segs[i].end), segs[i].text>>
         \o Blocks(segs, i + 1, arrow)

format_output(transcript, fmt) ==
    CASE fmt = "txt" -> <<transcript.text>>
      [] fmt = "srt" -> Blocks(transcript.segments, 1, "-->")
      [] fmt = "vtt" -> <<"WEBVTT">> \o Blocks(transcript.segments, 1, "-->")

AudioData == <<"ID3">>

Truncated == <<>>

(***************************************************************************)
(* Inputs                                                                  *)
(***************************************************************************)
TitleAlphabet == {"a", "1", " ", "-", "_", "/", "\t"}

AllTitles == BoundedSeq(TitleAlphabet, MaxTitleLen)

VideoTitles == {<<"a", "/">>, <<"/">>}

DefaultTitle == <<"a", "u", "d", "i", "o">>

Infos(T) ==
    {[has_title |-> TRUE, title |-> t] : t \in T}
        \cup {[has_title |-> FALSE, title |-> <<>>]}

InfoTitle(info) == IF info.has_title THEN info.title ELSE DefaultTitle

LineSet == {<<"\n">>, <<" ", "v", "\n">>}

NoInputFile == [given |-> FALSE, exists |-> FALSE, lines |-> <<>>]

InputFiles ==
    {NoInputFile, [given |-> TRUE, exists |-> FALSE, lines |-> <<>>]}
        \cup {[given |-> TRUE, exists |-> TRUE, lines |-> ls] :
                ls \in BoundedSeq(LineSet, MaxLines)}

RECURSIVE NonBlankStripped(_)
NonBlankStripped(lines) ==
    IF lines = <<>> THEN <<>>
    ELSE (IF Strip(Head(lines)) # <<>> THEN <<Strip(Head(lines))>> ELSE <<>>)
         \o NonBlankStripped(Tail(lines))

UrlList(u, file) ==
    (IF u # <<>> THEN <<u>> ELSE <<>>)
        \o (IF file.given THEN NonBlankStripped(file.lines) ELSE <<>>)

(***************************************************************************)
(* Control decisions of process_video                                      *)
(***************************************************************************)
WritesRawWheneverNamed(saveRaw, doClean) == saveRaw \/ doClean

WritesRaw(saveRaw, doClean) == (saveRaw \/ doClean) /\ (saveRaw \/ ~doClean)

RunsCleanerAlways(doClean) == TRUE

RunsCleaner(doClean) == doClean

FinalResultAlwaysReplaced(res, cleaned) == [res EXCEPT !.text = cleaned]

FinalResult(res, cleaned) ==
    IF cleaned # "" THEN [res EXCEPT !.text = cleaned] ELSE res

MovesAudio(keepAudio) == keepAudio

\* The scratch directory once the `with` block is left.
TempKept(files) == [exists |-> TRUE, files |-> files]

TempAfterWith(files) == [exists |-> FALSE, files |-> {}]

\* Whether process_video's handler catches what its body raises.
CatchesNothing == FALSE

CatchesException == TRUE

WriteFile(dir, name, content) == (name :> content) @@ dir

VARIABLES
    url, input_file, output_format, keep_audio, clean, save_raw,
    pc, urls, idx, exit_code, stderr, status,
    temp_exists, temp_files, title, audio_path, video_title,
    result, cleaned_text, final_result, formatted_output,
    warned, wrote, trace, outdir

inputs == <<url, input_file, output_format, keep_audio, clean, save_raw>>
batch == <<urls, idx, exit_code, status>>
job == <<title, audio_path, video_title, result, cleaned_text, final_result,
         formatted_output, warned, wrote>>
temp == <<temp_exists, temp_files>>
vars == <<inputs, batch, job, temp, pc, stderr, trace, outdir>>

JobInit ==
    /\ temp_exists = FALSE
    /\ temp_files = {}
    /\ title = <<>>
    /\ audio_path = <<>>
    /\ video_title = <<>>
    /\ result = NoResult
    /\ cleaned_text = ""
    /\ final_result = NoResult
    /\ formatted_output = <<>>
    /\ warned = FALSE
    /\ wrote = {}

BatchInit ==
    /\ pc = "cli"
    /\ urls = <<>>
    /\ idx = 0
    /\ exit_code = -1
    /\ stderr = <<>>
    /\ status = <<>>
    /\ trace = <<>>
    /\ outdir = <<>>

Init ==
    /\ url \in {<<>>, <<"u">>}
    /\ input_file \in InputFiles
    /\ output_format \in Formats
    /\ keep_audio \in BOOLEAN
    /\ clean \in BOOLEAN
    /\ save_raw \in BOOLEAN
    /\ BatchInit
    /\ JobInit

Exit(code, msgs) ==
    /\ pc' = "exit"
    /\ exit_code' = code
    /\ stderr' = stderr \o msgs

ResetJob ==
    /\ temp_exists' = FALSE
    /\ temp_files' = {}
    /\ title' = <<>>
    /\ audio_path' = <<>>
    /\ video_title' = <<>>
    /\ result' = NoResult
    /\ cleaned_text' = ""
    /\ final_result' = NoResult
    /\ formatted_output' = <<>>
    /\ warned' = FALSE
    /\ wrote' = {}
    /\ trace' = <<"Fetching">>

(***************************************************************************)
(* transcribe: argument handling                                           *)
(***************************************************************************)
\* --input-file is a click.Path(exists=True): a missing file is a usage error.
UsageError ==
    /\ pc = "cli"
    /\ input_file.given /\ ~input_file.exists
    /\ Exit(2, <<[kind |-> "usage", job |-> 0]>>)
    /\ UNCHANGED <<inputs, urls, idx, status, job, temp, trace, outdir>>

Abort ==
    /\ pc = "cli"
    /\ ~(input_file.given /\ ~input_file.exists)
    /\ url = <<>> /\ ~input_file.given
    /\ Exit(1, <<[kind |-> "abort", job |-> 0]>>)
    /\ UNCHANGED <<inputs, urls, idx, status, job, temp, trace, outdir>>

ReadUrls ==
    /\ pc = "cli"
    /\ ~(input_file.given /\ ~input_file.exists)
    /\ url # <<>> \/ input_file.given
    /\ \E readable \in BOOLEAN :
         IF input_file.given /\ ~readable
         THEN /\ Exit(1, <<[kind |-> "traceback", job |-> 0]>>)
              /\ UNCHANGED <<urls, status>>
         ELSE LET us == UrlList(url, input_file)
              IN  /\ urls' = us
                  /\ status' = [i \in 1..Len(us) |-> "pending"]
                  /\ IF us = <<>>
                     THEN Exit(0, <<[kind |-> "no_urls", job |-> 0]>>)
                     ELSE /\ pc' = "makedirs"
                          /\ UNCHANGED <<exit_code, stderr>>
    /\ UNCHANGED <<inputs, idx, job, temp, trace, outdir>>

MakeDirs ==
    /\ pc = "makedirs"
    /\ \E ok \in BOOLEAN :
         IF ok
         THEN /\ pc' = "Fetching"
              /\ idx' = 1
              /\ status' = [status EXCEPT ![1] = "running"]
              /\ trace' = <<"Fetching">>
              /\ UNCHANGED <<exit_code, stderr>>
         ELSE /\ Exit(1, <<[kind |-> "traceback", job |-> 0]>>)
              /\ UNCHANGED <<idx, status, trace>>
    /\ UNCHANGED <<inputs, urls, job, temp, outdir>>

(***************************************************************************)
(* process_video                                                           *)
(***************************************************************************)
JobStages ==
    {"Fetching", "Transcribing", "SavingRaw", "Cleaning", "Formatting",
     "Writing", "MovingAudio"}

\* An exception leaves the `with` block and reaches the handler.
Raised ==
    /\ temp_exists' = TempAfterWith(temp_files).exists
    /\ temp_files' = TempAfterWith(temp_files).files
    /\ IF CatchesException
       THEN /\ pc' = "Error"
            /\ stderr' = Append(stderr, [kind |-> "job_error", job |-> idx])
            /\ status' = [status EXCEPT ![idx] = "Error"]
            /\ trace' = Append(trace, "Error")
            /\ UNCHANGED exit_code
       ELSE /\ Exit(1, <<[kind |-> "traceback", job |-> 0]>>)
            /\ UNCHANGED <<status, trace>>

\* The body ran to its end: the `with` block is left normally.
Completed ==
    /\ temp_exists' = TempAfterWith(temp_files).exists
    /\ temp_files' = TempAfterWith(temp_files).files
    /\ pc' = "Done"
    /\ status' = [status EXCEPT ![idx] = "Done"]
    /\ trace' = Append(trace, "Done")
    /\ UNCHANGED <<exit_code, stderr>>

Goto(stage) ==
    /\ pc' = stage
    /\ trace' = Append(trace, stage)
    /\ UNCHANGED <<exit_code, stderr, status>>

EnterTempDir ==
    /\ pc = "Fetching"
    /\ ~temp_exists
    /\ temp_exists' = TRUE
    /\ temp_files' = {}
    /\ UNCHANGED <<inputs, batch, job, pc, stderr, trace, outdir>>

\* A call of the body raises before it has changed anything.
RaiseException ==
    /\ pc \in JobStages
    /\ Raised
    /\ UNCHANGED <<inputs, urls, idx, job, outdir>>

DownloadAudio(T) ==
    /\ pc = "Fetching"
    /\ temp_exists
    /\ \E info \in Infos(T) :
         LET safe_title == Sanitize(InfoTitle(info))
             audio_filename == AudioFilename(safe_title)
         IN  \E produced \in {EngineFilename(InfoTitle(info)), audio_filename,
                              UnconvertedFilename(InfoTitle(info))} :
               LET listing == temp_files \cup {produced}
                   mp3s == {f \in listing : EndsWith(f, Mp3Suffix)}
               IN  /\ title' = InfoTitle(info)
                   /\ IF mp3s = {}
                      THEN /\ Raised
                           /\ UNCHANGED <<audio_path, video_title>>
                      ELSE \E actual \in mp3s :
                             /\ temp_files' = (listing \ {actual}) \cup {audio_filename}
                             /\ temp_exists' = TRUE
                             /\ audio_path' = audio_filename
                             /\ video_title' = safe_title
                             /\ Goto("Transcribing")
    /\ UNCHANGED <<inputs, urls, idx, result, cleaned_text, final_result,
                   formatted_output, warned, wrote, outdir>>

StageAfterRawSkipsFormat == IF RunsCleaner(clean) THEN "Cleaning" ELSE "Writing"

StageAfterRaw == IF RunsCleaner(clean) THEN "Cleaning" ELSE "Formatting"

TranscribeAudio ==
    /\ pc = "Transcribing"
    /\ \E r \in Transcripts :
         /\ result' = r
         /\ IF WritesRaw(save_raw, clean)
            THEN /\ Goto("SavingRaw")
                 /\ UNCHANGED final_result
            ELSE /\ Goto(StageAfterRaw)
                 /\ final_result' = r
    /\ UNCHANGED <<inputs, urls, idx, title, audio_path, video_title, cleaned_text,
                   formatted_output, warned, wrote, temp, outdir>>

SaveRaw ==
    /\ pc = "SavingRaw"
    /\ LET raw_output_path == RawFilename(video_title, output_format)
           raw_formatted == format_output(result, output_format)
       IN  \E written \in BOOLEAN :
             /\ wrote' = wrote \cup {raw_output_path}
             /\ IF written
                THEN /\ outdir' = WriteFile(outdir, raw_output_path, raw_formatted)
                     /\ final_result' = result
                     /\ Goto(StageAfterRaw)
                     /\ UNCHANGED temp
                ELSE /\ outdir' = WriteFile(outdir, raw_output_path, Truncated)
                     /\ Raised
                     /\ UNCHANGED final_result
    /\ UNCHANGED <<inputs, urls, idx, title, audio_path, video_title, result,
                   cleaned_text, formatted_output, warned>>

Clean ==
    /\ pc = "Cleaning"
    /\ \E c \in CleanedTexts :
         /\ cleaned_text' = c
         /\ final_result' = FinalResult(result, c)
         /\ warned' = (c = "")
    /\ Goto("Formatting")
    /\ UNCHANGED <<inputs, urls, idx, title, audio_path, video_title, result,
                   formatted_output, wrote, temp, outdir>>

Format ==
    /\ pc = "Formatting"
    /\ formatted_output' = format_output(final_result, output_format)
    /\ Goto("Writing")
    /\ UNCHANGED <<inputs, urls, idx, title, audio_path, video_title, result,
                   cleaned_text, final_result, warned, wrote, temp, outdir>>

Write ==
    /\ pc = "Writing"
    /\ LET output_path == OutputFilename(video_title, output_format)
       IN  \E written \in BOOLEAN :
             /\ wrote' = wrote \cup {output_path}
             /\ IF written
                THEN /\ outdir' = WriteFile(outdir, output_path, formatted_output)
                     /\ IF MovesAudio(keep_audio)
                        THEN Goto("MovingAudio") /\ UNCHANGED temp
                        ELSE Completed
                ELSE /\ outdir' = WriteFile(outdir, output_path, Truncated)
                     /\ Raised
    /\ UNCHANGED <<inputs, urls, idx, title, audio_path, video_title, result,
                   cleaned_text, final_result, formatted_output, warned>>

KeepAudio ==
    /\ pc = "MovingAudio"
    /\ LET final_audio_path ==
               WithSuffixMp3(OutputFilename(video_title, output_format))
       IN  /\ outdir' = WriteFile(outdir, final_audio_path, AudioData)
           /\ wrote' = wrote \cup {final_audio_path}
    /\ Completed
    /\ UNCHANGED <<inputs, urls, idx, title, audio_path, video_title, result,
                   cleaned_text, final_result, formatted_output, warned>>

(***************************************************************************)
(* transcribe: the loop over the URLs                                      *)
(***************************************************************************)
NextUrl ==
    /\ pc \in {"Done", "Error"}
    /\ IF idx < Len(urls)
       THEN /\ idx' = idx + 1
            /\ status' = [status EXCEPT ![idx + 1] = "running"]
            /\ pc' = "Fetching"
            /\ ResetJob
            /\ UNCHANGED <<exit_code, stderr>>
       ELSE /\ Exit(0, <<>>)
            /\ UNCHANGED <<idx, status, job, temp, trace>>
    /\ UNCHANGED <<inputs, urls, outdir>>

Pipeline ==
    \/ EnterTempDir
    \/ RaiseException
    \/ TranscribeAudio
    \/ SaveRaw
    \/ Clean
    \/ Format
    \/ Write
    \/ KeepAudio

Next ==
    \/ UsageError
    \/ Abort
    \/ ReadUrls
    \/ MakeDirs
    \/ DownloadAudio(VideoTitles)
    \/ Pipeline
    \/ NextUrl

Spec == Init /\ [][Next]_vars

(***************************************************************************)
(* download_audio on its own: one job with the command line's defaults,    *)
(* fetching a video whose title is any string over TitleAlphabet.          *)
(***************************************************************************)
InitDownload ==
    /\ url = <<"u">>
    /\ input_file = NoInputFile
    /\ output_format = "txt"
    /\ keep_audio = FALSE
    /\ clean = TRUE
    /\ save_raw = FALSE
    /\ pc = "Fetching"
    /\ urls = <<url>>
    /\ idx = 1
    /\ exit_code = -1
    /\ stderr = <<>>
    /\ status = <<"running">>
    /\ trace = <<"Fetching">>
    /\ outdir = <<>>
    /\ JobInit

NextDownload ==
    \/ EnterTempDir
    \/ DownloadAudio(AllTitles)
    \/ RaiseException

SpecDownload == InitDownload /\ [][NextDownload]_vars

(***************************************************************************)
(* Properties                                                              *)
(***************************************************************************)
InTrace(stage) == \E i \in DOMAIN trace : trace[i] = stage

Pos(stage) == CHOOSE i \in DOMAIN trace : trace[i] = stage

MainName == video_title \o <<".">> \o Chars(output_format)

RawName == video_title \o <<"_", "r", "a", "w", ".">> \o Chars(output_format)

KeptAudioName ==
    IF video_title = <<>>
    THEN MainName \o <<".", "m", "p", "3">>
    ELSE video_title \o <<".", "m", "p", "3">>

Reported(i) == \E k \in DOMAIN stderr : stderr[k] = [kind |-> "job_error", job |-> i]

InJob == pc \in JobStages \cup {"Done", "Error"}

ExitZeroWheneverInputGiven ==
    (pc = "exit" /\ (url # <<>> \/ input_file.given)) => exit_code = 0

\* C2 (amended): once the first job has started the process exits 0 after
\* attempting every URL, whatever the jobs' outcomes; an empty URL list
\* exits 0; a non-zero exit happens only before any job: neither a URL nor
\* an input file (1), an --input-file that does not exist (2), an
\* unreadable input file or a failing os.makedirs (1).
ExitCodes ==
    /\ (pc = "exit") <=> (exit_code # -1)
    /\ (pc = "exit" /\ idx > 0) =>
         /\ exit_code = 0
         /\ \A i \in DOMAIN status : status[i] \in {"Done", "Error"}
    /\ (pc = "exit" /\ exit_code # 0) =>
         /\ idx = 0 /\ outdir = <<>>
         /\ \/ /\ exit_code = 2
               /\ input_file.given /\ ~input_file.exists
               /\ stderr = <<[kind |-> "usage", job |-> 0]>>
            \/ /\ exit_code = 1
               /\ url = <<>> /\ ~input_file.given
               /\ stderr = <<[kind |-> "abort", job |-> 0]>>
            \/ /\ exit_code = 1
               /\ url # <<>> \/ (input_file.given /\ input_file.exists)
               /\ stderr = <<[kind |-> "traceback", job |-> 0]>>
    /\ (pc = "exit" /\ exit_code = 0 /\ idx = 0) =>
         /\ urls = <<>>
         /\ stderr = <<[kind |-> "no_urls", job |-> 0]>>

ExitCodesWitness ==
    /\ pc = "exit"
    /\ exit_code = 0
    /\ Len(urls) = 2
    /\ status = <<"Error", "Error">>

\* C3 (as stated): a finished job with clean and save-raw set has produced
\* exactly two files in the output directory, the raw and the main variant.
ExactlyTwoFiles ==
    (pc = "Done" /\ clean /\ save_raw) =>
        /\ wrote = {RawName, MainName}
        /\ Cardinality(wrote) = 2

\* C3 (amended): a finished job with clean and save-raw set has written
\* exactly the two transcript files <title>_raw.<format> and
\* <title>.<format>, plus the kept audio file exactly when keep-audio is
\* set; the two transcripts differ only if the Cleaner returned a non-empty
\* text, and are identical when cleaning failed.
TwoTranscriptsPlusKeptAudio ==
    (pc = "Done" /\ clean /\ save_raw) =>
        /\ RawName # MainName
        /\ wrote = {RawName, MainName}
                     \cup (IF keep_audio THEN {KeptAudioName} ELSE {})
        /\ Cardinality(wrote) = IF keep_audio THEN 3 ELSE 2
        /\ wrote \subseteq DOMAIN outdir
        /\ outdir[RawName] # outdir[MainName] => cleaned_text # ""
        /\ cleaned_text = "" => outdir[RawName] = outdir[MainName]

TwoTranscriptsWitness ==
    /\ pc = "Done" /\ clean /\ save_raw /\ keep_audio
    /\ cleaned_text # ""
    /\ outdir[RawName] # outdir[MainName]

\* C4: an empty result of the Cleaner does not fail the job: the warning is
\* emitted, the job goes on to Formatting with the transcript unchanged,
\* and the file written to <title>.<format> is the raw formatted transcript.
CleaningFailureNonFatal ==
    /\ warned => (clean /\ cleaned_text = "" /\ InTrace("Formatting")
                    /\ trace[Pos("Cleaning") + 1] = "Formatting")
    /\ (clean /\ InTrace("Formatting") /\ cleaned_text = "") =>
         (warned /\ final_result = result)
    /\ (clean /\ InTrace("Formatting") /\ cleaned_text # "") => ~warned
    /\ (pc = "Done" /\ clean /\ cleaned_text = "") =>
         outdir[MainName] = format_output(result, output_format)

CleaningFailureWitness ==
    /\ pc = "Done" /\ clean /\ cleaned_text = "" /\ warned
    /\ output_format = "txt"
    /\ outdir[MainName] = <<result.text>>

\* C5: after every job, Done or Error at whatever stage, the scratch
\* directory is gone, and the output directory holds an audio file only if
\* keep-audio is set.
ScratchRemoved ==
    /\ pc \in {"Done", "Error", "exit", "cli", "makedirs"} =>
         (~temp_exists /\ temp_files = {})
    /\ \A f \in DOMAIN outdir :
         (outdir[f] = AudioData \/ EndsWith(f, <<".", "m", "p", "3">>)) => keep_audio
    /\ (pc = "Done" /\ keep_audio) =>
         (KeptAudioName \in DOMAIN outdir /\ outdir[KeptAudioName] = AudioData)

ScratchRemovedWitness ==
    /\ pc = "Error"
    /\ keep_audio
    /\ Len(trace) > 1
    /\ trace[Len(trace) - 1] = "MovingAudio"
    /\ audio_path # <<>>

UnchangedFiles ==
    \A f \in DOMAIN outdir :
        outdir[f] # Truncated =>
            /\ f \in DOMAIN outdir'
            /\ outdir'[f] \in {outdir[f], Truncated}

\* C6 (as stated): the output directory is only appended to: no step
\* removes a file that was written there or replaces its contents by other
\* contents (a write that fails half-way and leaves the file empty is left
\* aside on both sides).
AppendOnly == [][UnchangedFiles]_vars

OwnNames ==
    { video_title \o <<".">> \o Chars(output_format),
      video_title \o <<"_", "r", "a", "w", ".">> \o Chars(output_format),
      KeptAudioName }

TouchesOwnNamesOnly ==
    /\ DOMAIN outdir \subseteq DOMAIN outdir'
    /\ \A f \in DOMAIN outdir' :
         (f \notin DOMAIN outdir \/ outdir'[f] # outdir[f]) =>
             (pc \in {"SavingRaw", "Writing", "MovingAudio"} /\ f \in OwnNames)
    /\ Cardinality({f \in DOMAIN outdir' :
                      f \notin DOMAIN outdir \/ outdir'[f] # outdir[f]}) <= 1

\* C6 (amended): no step removes a file from the output directory, and a
\* job creates or overwrites only <title>.<format>, <title>_raw.<format>
\* and the kept audio file of its own sanitized title, one file per step;
\* files under other names are never changed, but a file an earlier job
\* wrote under the same name is overwritten.
NamesOnlyGrow == [][TouchesOwnNamesOnly]_vars

NamesOnlyGrowWitness ==
    /\ pc = "Done"
    /\ idx = 2
    /\ status = <<"Done", "Done">>
    /\ ~save_raw /\ ~keep_audio
    /\ Cardinality(DOMAIN outdir) = 1

\* C7: with no-clean the Cleaner is never invoked and the file written to
\* <title>.<format> is format_output of the Transcriber's result, for every
\* format and with or without save-raw.
NoCleanIsRaw ==
    ~clean =>
        /\ ~InTrace("Cleaning")
        /\ cleaned_text = "" /\ ~warned
        /\ InTrace("Writing") =>
             formatted_output = format_output(result, output_format)
        /\ (InTrace("MovingAudio") \/ pc = "Done") =>
             /\ MainName \in DOMAIN outdir
             /\ outdir[MainName] = format_output(result, output_format)

NoCleanWitness ==
    /\ ~clean /\ ~save_raw
    /\ pc = "Done"
    /\ output_format = "srt"
    /\ Len(outdir[MainName]) > 5

\* C8: the title download_audio returns holds only alphanumerics, spaces,
\* hyphens and underscores and does not end in whitespace, and the audio
\* file is in the destination directory as <sanitized title>.mp3.
SanitizedTitle ==
    audio_path # <<>> =>
        /\ \A i \in DOMAIN video_title :
             IsAlnum(video_title[i]) \/ video_title[i] \in {" ", "-", "_"}
        /\ video_title = <<>> \/ video_title[Len(video_title)] \notin Whitespace
        /\ audio_path = video_title \o <<".", "m", "p", "3">>
        /\ pc = "Transcribing" =>
             (temp_exists /\ temp_files = {audio_path})
        /\ \A i \in DOMAIN MainName : MainName[i] # "/"

SanitizedTitleWitness ==
    /\ pc = "Transcribing"
    /\ title = <<"a", "/", " ">>
    /\ video_title = <<"a">>
    /\ temp_files = {<<"a", ".", "m", "p", "3">>}

Succ(stage) ==
    CASE stage = "Fetching" -> "Transcribing"
      [] stage = "Transcribing" ->
            IF save_raw THEN "SavingRaw"
            ELSE IF clean THEN "Cleaning" ELSE "Formatting"
      [] stage = "SavingRaw" -> IF clean THEN "Cleaning" ELSE "Formatting"
      [] stage = "Cleaning" -> "Formatting"
      [] stage = "Formatting" -> "Writing"
      [] stage = "Writing" -> IF keep_audio THEN "MovingAudio" ELSE "Done"
      [] stage = "MovingAudio" -> "Done"
      [] OTHER -> "none"

\* C9: a job's stages follow Fetching, Transcribing, (SavingRaw),
\* (Cleaning), Formatting, Writing, Done, each at most once and never
\* backwards; any stage may instead end in Error, after which the job does
\* nothing more; transcription starts with the audio fetched, the raw file
\* is written before the Cleaner runs, the main file after it returned.
StageOrder ==
    /\ InJob => (trace # <<>> /\ trace[1] = "Fetching" /\ trace[Len(trace)] = pc)
    /\ \A i \in 1..(Len(trace) - 1) :
         /\ trace[i + 1] \in {Succ(trace[i]), "Error"}
         /\ trace[i] \in JobStages
    /\ \A i, j \in DOMAIN trace : trace[i] = trace[j] => i = j
    /\ InTrace("Transcribing") =>
         (audio_path # <<>> /\ (pc = "Transcribing" => audio_path \in temp_files))
    /\ (InTrace("Cleaning") /\ save_raw) =>
         (RawName \in wrote /\ Pos("SavingRaw") < Pos("Cleaning"))
    /\ (MainName \in wrote /\ clean) =>
         (InTrace("Cleaning") /\ Pos("Cleaning") < Pos("Writing"))
    /\ MainName \in wrote => InTrace("Writing")

StageOrderWitness ==
    /\ pc = "Done"
    /\ trace = <<"Fetching", "Transcribing", "SavingRaw", "Cleaning",
                 "Formatting", "Writing", "Done">>

TranscriptionSucceeded ==
    /\ Len(trace) >= 3
    /\ trace[2] = "Transcribing"
    /\ trace[3] # "Error"

\* C10: the raw save is performed exactly when save-raw is set and
\* transcription succeeded, whatever the clean flag; a finished job has
\* written <title>_raw.<format> iff save-raw is set; with clean and without
\* save-raw no raw file is written; with no-clean and save-raw the raw and
\* the main file have the same contents.
RawIffSaveRaw ==
    /\ InJob => (InTrace("SavingRaw") <=> (save_raw /\ TranscriptionSucceeded))
    /\ RawName \in wrote => (save_raw /\ InTrace("SavingRaw"))
    /\ (save_raw /\ (InTrace("Cleaning") \/ InTrace("Formatting"))) =>
         (RawName \in wrote /\ RawName \in DOMAIN outdir)
    /\ (InJob /\ clean /\ ~save_raw) => (\A f \in wrote : f = MainName \/ f = KeptAudioName)
    /\ (pc = "Done") => (RawName \in wrote <=> save_raw)
    /\ (pc = "Done" /\ save_raw) =>
         outdir[RawName] = format_output(result, output_format)
    /\ (pc = "Done" /\ save_raw /\ ~clean) =>
         (RawName # MainName /\ outdir[RawName] = outdir[MainName])

RawIffSaveRawWitness ==
    /\ pc = "Done" /\ save_raw /\ ~clean
    /\ output_format = "vtt"
    /\ outdir[RawName] = outdir[MainName]
    /\ Len(outdir[RawName]) > 1

====
